---- MODULE Spec2Model ----
(***************************************************************************)
(* Model of src/components/FishIdentifier.tsx: the FishIdentifier React    *)
(* component.  Two specifications are given:                               *)
(*                                                                         *)
(*   SpecInterp  the result interpretation of identifyFish (lines 73-98)   *)
(*               and the badge rendering (lines 235-241) applied to        *)
(*               bounded classifier outputs;                               *)
(*   Spec        the component as a state machine: its useState fields,    *)
(*               its event handlers, the FileReader reads and the          *)
(*               classification requests in flight.                        *)
(*                                                                         *)
(* A JavaScript string is a sequence of one-character strings; a score is  *)
(* an integer number of hundredths (0.7 is 70).                            *)
(***************************************************************************)
EXTENDS Integers, Sequences, FiniteSets, TLC

VARIABLES
    image,            \* useState image: a data URL or Null
    isLoading,        \* useState isLoading
    results,          \* useState results: sequence of IdentificationResult
    isDragOver,       \* useState isDragOver
    pickerOpen,       \* the browser's file dialog opened by "Choose Image"
    reads,            \* per file, its FileReader.readAsDataURL calls pending
    requests,         \* identifyFish calls suspended at an await
    toasts,           \* notifications raised by the step just taken
    resultsFrom,      \* the image the stored results were computed from
    classified,       \* SpecInterp: the classifier's output (result, line 70)
    processedResults, \* SpecInterp: processedResults (line 73)
    badges,           \* SpecInterp: the badge tier rendered for each record
    pc                \* SpecInterp: "classified", "processed" or "rendered"

vars == <<image, isLoading, results, isDragOver, pickerOpen,
          reads, requests, toasts, resultsFrom, classified, processedResults,
          badges, pc>>

uiVars == <<image, isLoading, results, isDragOver, pickerOpen,
            reads, requests, toasts, resultsFrom>>

interpVars == <<classified, processedResults, badges, pc>>

----------------------------------------------------------------------------
(* Bounds *)

\* longest classifier output with labels and scores drawn from all of Entries
MaxLabelled == 2
\* longest classifier output over LongEntries (more than the slice keeps)
MaxN == 6
\* longest classifier output in Spec
MaxOut == 2
\* FileReader reads pending at once
MaxReads == 1
\* identifyFish calls suspended at once
MaxInflight == 2

----------------------------------------------------------------------------
(* JavaScript values *)

\* undefined: no string value is it, since characters are one-character strings
Undefined == <<"undefined">>

\* null (the initial image)
Null == <<"null">>

\* JavaScript truthiness of an optional string: undefined and "" are falsy
Truthy(v) == v # Undefined /\ v # <<>>

Min(a, b) == IF a <= b THEN a ELSE b

UpperCase ==
    <<"A","B","C","D","E","F","G","H","I","J","K","L","M",
      "N","O","P","Q","R","S","T","U","V","W","X","Y","Z">>

LowerCase ==
    <<"a","b","c","d","e","f","g","h","i","j","k","l","m",
      "n","o","p","q","r","s","t","u","v","w","x","y","z">>

\* String.prototype.toLowerCase on one character of the labels' alphabet
\* (ASCII letters, space, tab)
LowerChar(c) ==
    IF \E k \in 1..26 : UpperCase[k] = c
    THEN <<LowerCase[CHOOSE k \in 1..26 : UpperCase[k] = c]>>
    ELSE <<c>>

RECURSIVE ToLowerCase(_)
ToLowerCase(s) ==
    IF s = <<>> THEN <<>> ELSE LowerChar(Head(s)) \o ToLowerCase(Tail(s))

\* String.prototype.includes
Includes(s, sub) ==
    \E i \in 0..(Len(s) - Len(sub)) : SubSeq(s, i + 1, i + Len(sub)) = sub

\* String.prototype.startsWith
StartsWith(s, prefix) ==
    Len(s) >= Len(prefix) /\ SubSeq(s, 1, Len(prefix)) = prefix

\* String.prototype.split(' '): cuts at every single U+0020, keeping empty
\* pieces; a string without a space gives one piece, the string itself
RECURSIVE Split(_)
Split(s) ==
    IF \E i \in 1..Len(s) : s[i] = " "
    THEN LET i == CHOOSE j \in 1..Len(s) :
                      s[j] = " " /\ \A k \in 1..(j - 1) : s[k] # " "
         IN  <<SubSeq(s, 1, i - 1)>> \o Split(SubSeq(s, i + 1, Len(s)))
    ELSE <<s>>

----------------------------------------------------------------------------
(* identifyFish: interpretation of the classifier output *)

\* the limit of result.slice(0, 5)
TopK == 5

\* Array.prototype.slice(0, k)
Slice(result, k) == SubSeq(result, 1, Min(Len(result), k))

IsFishRelatedAnyCase(itemLabel) ==
    \/ Includes(itemLabel, <<"f","i","s","h">>)
    \/ Includes(itemLabel, <<"s","a","l","m","o","n">>)
    \/ Includes(itemLabel, <<"t","u","n","a">>)
    \/ Includes(itemLabel, <<"b","a","s","s">>)
    \/ Includes(itemLabel, <<"s","h","a","r","k">>)
    \/ Includes(itemLabel, <<"t","r","o","u","t">>)
    \/ Includes(itemLabel, <<"c","o","d">>)
    \/ Includes(itemLabel, <<"m","a","r","i","n","e">>)
    \/ Includes(itemLabel, <<"a","q","u","a","t","i","c">>)

\* isFishRelated (lines 74-83)
IsFishRelated(itemLabel) ==
    LET label == ToLowerCase(itemLabel)
    IN  \/ Includes(label, <<"f","i","s","h">>)
        \/ Includes(label, <<"s","a","l","m","o","n">>)
        \/ Includes(label, <<"t","u","n","a">>)
        \/ Includes(label, <<"b","a","s","s">>)
        \/ Includes(label, <<"s","h","a","r","k">>)
        \/ Includes(label, <<"t","r","o","u","t">>)
        \/ Includes(label, <<"c","o","d">>)
        \/ Includes(label, <<"m","a","r","i","n","e">>)
        \/ Includes(label, <<"a","q","u","a","t","i","c">>)

extractSpecies(label) ==
    LET words == Split(label)
    IN  IF Len(words) >= 2 THEN words[1] \o <<" ">> \o words[2] ELSE label

extractGenus(label) == Split(label)[1]

ProcessItemLowerLabel(item) ==
    LET isFishRelated == IsFishRelated(item.label)
    IN  [label      |-> ToLowerCase(item.label),
         score      |-> item.score,
         species    |-> IF isFishRelated THEN extractSpecies(item.label) ELSE Undefined,
         genus      |-> IF isFishRelated THEN extractGenus(item.label) ELSE Undefined,
         commonName |-> IF isFishRelated THEN item.label ELSE Undefined]

\* the map callback (lines 73-92)
ProcessItem(item) ==
    LET isFishRelated == IsFishRelated(item.label)
    IN  [label      |-> item.label,
         score      |-> item.score,
         species    |-> IF isFishRelated THEN extractSpecies(item.label) ELSE Undefined,
         genus      |-> IF isFishRelated THEN extractGenus(item.label) ELSE Undefined,
         commonName |-> IF isFishRelated THEN item.label ELSE Undefined]

ProcessResultsNoSlice(result) ==
    [i \in 1..Len(result) |-> ProcessItem(result[i])]

\* result.slice(0, 5).map(...)
ProcessResults(result) ==
    LET kept == Slice(result, TopK)
    IN  [i \in 1..Len(kept) |-> ProcessItem(kept[i])]

NoFishDetectedSome(processed) ==
    \E i \in 1..Len(processed) : ~Truthy(processed[i].species)

\* processedResults.every(r => !r.species)
NoFishDetected(processed) ==
    \A i \in 1..Len(processed) : ~Truthy(processed[i].species)

ConfidenceTierInclusive(score) ==
    IF score >= 70 THEN "high" ELSE IF score >= 40 THEN "medium" ELSE "low"

\* the badge class chosen at lines 235-241 (green, yellow, red)
ConfidenceTier(score) ==
    IF score > 70 THEN "high" ELSE IF score > 40 THEN "medium" ELSE "low"

----------------------------------------------------------------------------
(* The classifier's outputs *)

\* "tiger shark"
LabelTigerShark == <<"t","i","g","e","r"," ","s","h","a","r","k">>
\* "beach towel"
LabelBeachTowel == <<"b","e","a","c","h"," ","t","o","w","e","l">>
\* "cod"
LabelCod == <<"c","o","d">>
\* " cod" (leading space)
LabelLeadingSpace == <<" ","c","o","d">>
\* "Sea  bass" (capital, two spaces)
LabelDoubleSpace == <<"S","e","a"," "," ","b","a","s","s">>
\* "COD<TAB>liver" (capitals, a tab between the words)
LabelTab == <<"C","O","D","\t","l","i","v","e","r">>
\* "great white shark"
LabelGreatWhiteShark ==
    <<"g","r","e","a","t"," ","w","h","i","t","e"," ","s","h","a","r","k">>
\* "tuna " (trailing space)
LabelTrailingSpace == <<"t","u","n","a"," ">>

Labels ==
    {LabelTigerShark, LabelBeachTowel, LabelCod, LabelLeadingSpace,
     LabelDoubleSpace, LabelTab, LabelGreatWhiteShark, LabelTrailingSpace}

\* scores in hundredths: 0.05, 0.4, 0.55, 0.7, 0.92
Scores == {5, 40, 55, 70, 92}

Entries == [label : Labels, score : Scores]

LongEntries ==
    {[label |-> LabelTigerShark, score |-> 92],
     [label |-> LabelBeachTowel, score |-> 5]}

UIEntries ==
    {[label |-> LabelLeadingSpace, score |-> 92],
     [label |-> LabelTigerShark, score |-> 70],
     [label |-> LabelBeachTowel, score |-> 40]}

SeqsUpTo(S, n) == UNION {[1..k -> S] : k \in 0..n}

\* the classifier ranks its output: scores never increase along it
IsRanked(result) ==
    \A i \in 1..(Len(result) - 1) : result[i].score >= result[i + 1].score

InterpOutputs ==
    {r \in SeqsUpTo(Entries, MaxLabelled) \cup SeqsUpTo(LongEntries, MaxN) :
        IsRanked(r)}

UIOutputs == {r \in SeqsUpTo(UIEntries, MaxOut) : IsRanked(r)}

\* processedResults for each output the classifier can give in Spec (a table
\* of ProcessResults, evaluated once)
UIProcessed == [result \in UIOutputs |-> ProcessResults(result)]

----------------------------------------------------------------------------
(* SpecInterp: the interpretation and the rendering on their own *)

UIInit ==
    /\ image = Null
    /\ isLoading = FALSE
    /\ results = <<>>
    /\ isDragOver = FALSE
    /\ pickerOpen = FALSE
    /\ reads = [file \in {"fish.png", "dog.jpg", "notes.txt"} |-> 0]
    /\ requests = <<>>
    /\ toasts = <<>>
    /\ resultsFrom = Null

InitInterp ==
    /\ UIInit
    /\ classified \in InterpOutputs
    /\ processedResults = <<>>
    /\ badges = <<>>
    /\ pc = "classified"

\* lines 73-92 applied to the classifier's output
Interpret ==
    /\ pc = "classified"
    /\ processedResults' = ProcessResults(classified)
    /\ pc' = "processed"
    /\ UNCHANGED <<classified, badges>>
    /\ UNCHANGED uiVars

\* results.map at lines 228-258: one badge per record
Render ==
    /\ pc = "processed"
    /\ badges' = [i \in 1..Len(processedResults) |->
                      ConfidenceTier(processedResults[i].score)]
    /\ pc' = "rendered"
    /\ UNCHANGED <<classified, processedResults>>
    /\ UNCHANGED uiVars

NextInterp == Interpret \/ Render

SpecInterp == InitInterp /\ [][NextInterp]_vars

----------------------------------------------------------------------------
(* Spec: the component *)

\* the files the user can pick or drop
Files == {"fish.png", "dog.jpg", "notes.txt"}

\* no file: an empty input value, a drop that carries no file
NoFile == ""

\* File.type, the MIME type the browser reports
FileType(file) ==
    CASE file = "fish.png" -> <<"i","m","a","g","e","/","p","n","g">>
      [] file = "dog.jpg"  -> <<"i","m","a","g","e","/","j","p","e","g">>
      [] OTHER             -> <<"t","e","x","t","/","p","l","a","i","n">>

\* file.type.startsWith('image/')
IsImageType(file) == StartsWith(FileType(file), <<"i","m","a","g","e","/">>)

\* e.target.result of readAsDataURL
DataURL(file) == <<"data:", file>>

ToastInvalid ==
    [level |-> "error", message |-> "Please upload a valid image file"]

ToastFailed ==
    [level |-> "error", message |-> "Failed to identify fish. Please try again."]

ToastNoFish ==
    [level |-> "info",
     message |-> "This might not be a fish image. The AI couldn't detect any fish species."]

\* requests without its i-th element
Remove(seq, i) == SubSeq(seq, 1, i - 1) \o SubSeq(seq, i + 1, Len(seq))

Init ==
    /\ UIInit
    /\ classified = <<>>
    /\ processedResults = <<>>
    /\ badges = <<>>
    /\ pc = "idle"

HandleImageUploadNoReturn(file) ==
    /\ toasts' = IF ~IsImageType(file) THEN <<ToastInvalid>> ELSE <<>>
    /\ reads' = [reads EXCEPT ![file] = @ + 1]

\* handleImageUpload up to reader.readAsDataURL(file)
HandleImageUpload(file) ==
    IF ~IsImageType(file)
    THEN /\ toasts' = <<ToastInvalid>>
         /\ reads' = reads
    ELSE /\ toasts' = <<>>
         /\ reads' = [reads EXCEPT ![file] = @ + 1]

\* a read can be started (the bound on pending reads)
PendingReads == reads["fish.png"] + reads["dog.jpg"] + reads["notes.txt"]

CanRead(file) == IsImageType(file) => PendingReads < MaxReads

\* onDrop: handleDrop with e.dataTransfer.files[0] = file
Drop(file) ==
    /\ isDragOver' = FALSE
    /\ IF file = NoFile
       THEN toasts' = <<>> /\ reads' = reads
       ELSE CanRead(file) /\ HandleImageUpload(file)
    /\ UNCHANGED <<image, isLoading, results, pickerOpen,
                   requests, resultsFrom>>
    /\ UNCHANGED interpVars

DragOver ==
    /\ isDragOver' = TRUE
    /\ toasts' = <<>>
    /\ UNCHANGED <<image, isLoading, results, pickerOpen,
                   reads, requests, resultsFrom>>
    /\ UNCHANGED interpVars

DragLeave ==
    /\ isDragOver' = FALSE
    /\ toasts' = <<>>
    /\ UNCHANGED <<image, isLoading, results, pickerOpen,
                   reads, requests, resultsFrom>>
    /\ UNCHANGED interpVars

\* the "Choose Image" button, rendered while no image is set
ChooseImageClick ==
    /\ image = Null
    /\ ~pickerOpen
    /\ pickerOpen' = TRUE
    /\ toasts' = <<>>
    /\ UNCHANGED <<image, isLoading, results, isDragOver,
                   reads, requests, resultsFrom>>
    /\ UNCHANGED interpVars

\* onChange of the file input: handleFileSelect with e.target.files[0] = file.
\* The input's own value is not modelled: any file may be chosen at any time
\* the dialog is open, so emptying the value (line 180) changes nothing here.
FileSelect(file) ==
    /\ pickerOpen
    /\ CanRead(file)
    /\ pickerOpen' = FALSE
    /\ HandleImageUpload(file)
    /\ UNCHANGED <<image, isLoading, results, isDragOver, requests,
                   resultsFrom>>
    /\ UNCHANGED interpVars

\* the dialog is closed with no file chosen: no change event, or
\* handleFileSelect with no file, which does nothing
PickerDismiss ==
    /\ pickerOpen
    /\ pickerOpen' = FALSE
    /\ toasts' = <<>>
    /\ UNCHANGED <<image, isLoading, results, isDragOver, reads, requests,
                   resultsFrom>>
    /\ UNCHANGED interpVars

\* reader.onload
ReadLoaded(file) ==
    /\ reads[file] > 0
    /\ reads' = [reads EXCEPT ![file] = @ - 1]
    /\ image' = DataURL(file)
    /\ results' = <<>>
    /\ resultsFrom' = Null
    /\ toasts' = <<>>
    /\ UNCHANGED <<isLoading, isDragOver, pickerOpen, requests>>
    /\ UNCHANGED interpVars

\* the read fails: the reader has no onerror handler
ReadFailed(file) ==
    /\ reads[file] > 0
    /\ reads' = [reads EXCEPT ![file] = @ - 1]
    /\ toasts' = <<>>
    /\ UNCHANGED <<image, isLoading, results, isDragOver,
                   pickerOpen, requests, resultsFrom>>
    /\ UNCHANGED interpVars

IdentifyButtonAlwaysEnabled == image # Null

\* the "Identify Fish Species" button is rendered and not disabled.  React
\* re-renders after a click before the next click is delivered, so a click
\* sees the isLoading the previous one set.
IdentifyButtonEnabled == image # Null /\ ~isLoading

\* onClick of the button: identifyFish up to its first await
IdentifyClick ==
    /\ IdentifyButtonEnabled
    /\ Len(requests) < MaxInflight
    /\ IF image = Null
       THEN UNCHANGED <<isLoading, requests>>
       ELSE /\ isLoading' = TRUE
            /\ requests' = Append(requests, [image |-> image, awaiting |-> "pipeline"])
    /\ toasts' = <<>>
    /\ UNCHANGED <<image, results, isDragOver, pickerOpen,
                   reads, resultsFrom>>
    /\ UNCHANGED interpVars

\* await pipeline(...) resolves: classifier(image) is called
PipelineResolved(i) ==
    /\ requests[i].awaiting = "pipeline"
    /\ requests' = [requests EXCEPT ![i].awaiting = "classifier"]
    /\ toasts' = <<>>
    /\ UNCHANGED <<image, isLoading, results, isDragOver,
                   pickerOpen, reads, resultsFrom>>
    /\ UNCHANGED interpVars

IdentifyCatchStillLoading(i) ==
    /\ toasts' = <<ToastFailed>>
    /\ requests' = Remove(requests, i)
    /\ UNCHANGED <<isLoading, results, resultsFrom>>

\* the catch and finally blocks of identifyFish
IdentifyCatch(i) ==
    /\ toasts' = <<ToastFailed>>
    /\ isLoading' = FALSE
    /\ requests' = Remove(requests, i)
    /\ UNCHANGED <<results, resultsFrom>>

\* await pipeline(...) or await classifier(image) rejects
Rejected(i) ==
    /\ IdentifyCatch(i)
    /\ UNCHANGED <<image, isDragOver, pickerOpen, reads>>
    /\ UNCHANGED interpVars

StoreResultsIfCurrent(request, processed) ==
    IF request.image = image
    THEN results' = processed /\ resultsFrom' = request.image
    ELSE UNCHANGED <<results, resultsFrom>>

\* setResults(processedResults)
StoreResults(request, processed) ==
    /\ results' = processed
    /\ resultsFrom' = request.image

\* await classifier(image) resolves with result: the rest of the try block
\* and the finally block
ClassifierResolved(i, result) ==
    /\ requests[i].awaiting = "classifier"
    /\ LET processed == UIProcessed[result]
       IN  /\ StoreResults(requests[i], processed)
           /\ toasts' = IF NoFishDetected(processed) THEN <<ToastNoFish>> ELSE <<>>
    /\ isLoading' = FALSE
    /\ requests' = Remove(requests, i)
    /\ UNCHANGED <<image, isDragOver, pickerOpen, reads>>
    /\ UNCHANGED interpVars

\* the "Upload Different Image" button, rendered while an image is set
UploadDifferentClick ==
    /\ image # Null
    /\ image' = Null
    /\ results' = <<>>
    /\ resultsFrom' = Null
    /\ toasts' = <<>>
    /\ UNCHANGED <<isLoading, isDragOver, pickerOpen, reads, requests>>
    /\ UNCHANGED interpVars

Next ==
    \/ \E file \in Files \cup {NoFile} : Drop(file)
    \/ DragOver
    \/ DragLeave
    \/ ChooseImageClick
    \/ \E file \in Files : FileSelect(file)
    \/ PickerDismiss
    \/ \E file \in Files : ReadLoaded(file)
    \/ \E file \in Files : ReadFailed(file)
    \/ IdentifyClick
    \/ \E i \in 1..Len(requests) : PipelineResolved(i)
    \/ \E i \in 1..Len(requests) : Rejected(i)
    \/ \E i \in 1..Len(requests), result \in UIOutputs : ClassifierResolved(i, result)
    \/ UploadDifferentClick

Spec == Init /\ [][Next]_vars

----------------------------------------------------------------------------
(* Properties of the interpretation, checked under SpecInterp *)

Keywords ==
    {<<"f","i","s","h">>, <<"s","a","l","m","o","n">>, <<"t","u","n","a">>,
     <<"b","a","s","s">>, <<"s","h","a","r","k">>, <<"t","r","o","u","t">>,
     <<"c","o","d">>, <<"m","a","r","i","n","e">>,
     <<"a","q","u","a","t","i","c">>}

\* fish-relevant as the specification words it: the lower-cased label
\* contains one of the keywords
Relevant(label) == \E kw \in Keywords : Includes(ToLowerCase(label), kw)

Whitespace == {" ", "\t"}

\* the whitespace-delimited tokens of a string
RECURSIVE Tokens(_)
Tokens(s) ==
    IF s = <<>> THEN <<>>
    ELSE IF Head(s) \in Whitespace THEN Tokens(Tail(s))
    ELSE LET n == CHOOSE j \in 1..Len(s) :
                      /\ \A k \in 1..j : s[k] \notin Whitespace
                      /\ (j < Len(s) => s[j + 1] \in Whitespace)
         IN  <<SubSeq(s, 1, n)>> \o Tokens(SubSeq(s, n + 1, Len(s)))

Interpreted == pc # "classified"

\* C1 (as stated): for every limit k the interpreter emits min(n, k) records.
\* The limits tried are those of the specification's scenarios, 2 and 5.
C1_TruncationAnyTopK ==
    Interpreted =>
        \A k \in {2, 5} : Len(processedResults) = Min(Len(classified), k)

\* C1 (amended): the interpreter emits exactly min(n, 5) records, the limit 5
\* being fixed, and record i is taken from input entry i.
C1_TruncationAtFive ==
    Interpreted =>
        /\ Len(processedResults) = Min(Len(classified), 5)
        /\ \A i \in 1..Len(processedResults) :
               /\ i <= Len(classified)
               /\ processedResults[i].label = classified[i].label

C1_Witness ==
    /\ Interpreted
    /\ Len(classified) > 5
    /\ Len(processedResults) = 5

\* C2: the output record at index i carries exactly the label and the score of
\* the input entry at index i.
C2_OrderPreserved ==
    Interpreted =>
        /\ Len(processedResults) <= Len(classified)
        /\ \A i \in 1..Len(processedResults) :
               /\ processedResults[i].label = classified[i].label
               /\ processedResults[i].score = classified[i].score

C2_Witness ==
    /\ Interpreted
    /\ Len(processedResults) = 2
    /\ processedResults[1].label = LabelDoubleSpace
    /\ processedResults[2].label = LabelCod
    /\ processedResults[1].score > processedResults[2].score

\* C3: species, genus and commonName are all present iff the entry is
\* fish-relevant, all absent otherwise, and commonName of a relevant entry is
\* the original label.
C3_FieldsIffRelevant ==
    Interpreted =>
        \A i \in 1..Len(processedResults) :
            LET r == processedResults[i]
            IN  IF Relevant(classified[i].label)
                THEN /\ r.species # Undefined
                     /\ r.genus # Undefined
                     /\ r.commonName = classified[i].label
                ELSE /\ r.species = Undefined
                     /\ r.genus = Undefined
                     /\ r.commonName = Undefined

C3_Witness ==
    /\ Interpreted
    /\ Len(processedResults) = 2
    /\ processedResults[1].commonName = LabelTab
    /\ processedResults[2].label = LabelBeachTowel
    /\ processedResults[2].commonName = Undefined

\* C4: for every fish-relevant entry, genus is the first whitespace-delimited
\* token of the label and species is the first two tokens joined by one space
\* when there are at least two tokens, otherwise the full label.
C4_TokenExtraction ==
    Interpreted =>
        \A i \in 1..Len(processedResults) :
            LET label  == classified[i].label
                tokens == Tokens(label)
            IN  Relevant(label) =>
                    /\ processedResults[i].genus = tokens[1]
                    /\ processedResults[i].species =
                           IF Len(tokens) >= 2
                           THEN tokens[1] \o <<" ">> \o tokens[2]
                           ELSE label

\* C9 (as stated): high when score > 0.7, medium when 0.4 <= score <= 0.7,
\* low when score < 0.4.
C9_TierMediumFromFourTenths ==
    pc = "rendered" =>
        /\ Len(badges) = Len(processedResults)
        /\ \A i \in 1..Len(badges) :
               LET score == processedResults[i].score
               IN  /\ badges[i] \in {"high", "medium", "low"}
                   /\ badges[i] = "high" <=> score > 70
                   /\ badges[i] = "medium" <=> (40 <= score /\ score <= 70)
                   /\ badges[i] = "low" <=> score < 40

\* C9 (amended): every record gets exactly one tier, high when score > 0.7,
\* medium when 0.4 < score <= 0.7, low when score <= 0.4; the boundary 0.7 is
\* medium and the boundary 0.4 is low.
C9_TierStrictThresholds ==
    pc = "rendered" =>
        /\ Len(badges) = Len(processedResults)
        /\ \A i \in 1..Len(badges) :
               LET score == processedResults[i].score
               IN  /\ badges[i] \in {"high", "medium", "low"}
                   /\ badges[i] = "high" <=> score > 70
                   /\ badges[i] = "medium" <=> (40 < score /\ score <= 70)
                   /\ badges[i] = "low" <=> score <= 40

C9_Witness ==
    /\ pc = "rendered"
    /\ Len(badges) = 2
    /\ processedResults[1].score = 70 /\ badges[1] = "medium"
    /\ processedResults[2].score = 40 /\ badges[2] = "low"

----------------------------------------------------------------------------
(* Properties of the component, checked under Spec *)

\* relevance of each label the classifier can give
RelevantLabel == [label \in Labels |-> Relevant(label)]

\* a step in which a suspended identifyFish call ends without the failure
\* notification: its classifier call resolved
ClassifiedStep ==
    /\ Len(requests') < Len(requests)
    /\ toasts' # <<ToastFailed>>

\* C5: after every successful classification the "no fish detected"
\* notification is raised iff every output record lacks species, iff no entry
\* kept is fish-relevant; an empty output raises it.
C5_NoFishSignal ==
    [][ClassifiedStep =>
           /\ (toasts' = <<ToastNoFish>>) \/ (toasts' = <<>>)
           /\ (toasts' = <<ToastNoFish>>) <=>
                  \A j \in 1..Len(results') : results'[j].species = Undefined
           /\ (toasts' = <<ToastNoFish>>) <=>
                  \A j \in 1..Len(results') : ~RelevantLabel[results'[j].label]
           /\ (results' = <<>> => toasts' = <<ToastNoFish>>)]_vars

C5_Witness ==
    /\ ~isLoading
    /\ toasts = <<>>
    /\ Len(results) = 2
    /\ results[1].label = LabelLeadingSpace
    /\ results[1].genus = <<>>
    /\ results[2].species = Undefined

\* C6: at most one classification request is outstanding; while one is
\* outstanding isLoading is true and no new request starts; a request starts
\* only from an Identify click made with an image set and isLoading false, and
\* that click starts exactly one request.
C6_SingleRequest ==
    /\ [](Len(requests) <= 1 /\ (requests # <<>> => isLoading))
    /\ [][requests # <<>> => Len(requests') <= Len(requests)]_vars
    /\ [][Len(requests') > Len(requests) =>
              /\ ~isLoading /\ image # Null
              /\ isLoading'
              /\ requests' = Append(requests, [image |-> image, awaiting |-> "pipeline"])]_vars
    /\ [][IdentifyClick => Len(requests') = Len(requests) + 1]_vars

C6_Witness ==
    /\ Len(requests) = 1
    /\ isLoading
    /\ image # Null
    /\ requests[1].awaiting = "classifier"

\* C7: when loading or invoking the classifier fails, exactly one error
\* notification is raised, no request is left or re-issued, results and image
\* are unchanged, and isLoading is false again, so that the Identify button is
\* enabled whenever an image is set.
C7_FailureSurfacedOnce ==
    [][\A i \in 1..Len(requests) :
           Rejected(i) =>
               /\ toasts' = <<ToastFailed>>
               /\ requests' = <<>>
               /\ results' = results
               /\ image' = image
               /\ ~isLoading'
               /\ (image' # Null => IdentifyButtonEnabled')]_vars

C7_Witness ==
    /\ toasts = <<ToastFailed>>
    /\ ~isLoading
    /\ requests = <<>>
    /\ results # <<>>
    /\ image # Null

\* C8: a file whose type is not an image, submitted by the picker or by a
\* drop, is rejected with the validation message; no read is started for it,
\* image, results, isLoading and the requests are unchanged, and no image the
\* component holds or classifies comes from such a file.
C8_InvalidInputRejected ==
    /\ [][\A file \in Files :
              (~IsImageType(file) /\ (Drop(file) \/ FileSelect(file))) =>
                  /\ toasts' = <<ToastInvalid>>
                  /\ UNCHANGED <<image, results, isLoading, requests, reads>>]_vars
    /\ [](/\ image \in {Null} \cup {DataURL(f) : f \in {"fish.png", "dog.jpg"}}
          /\ \A i \in 1..Len(requests) :
                 requests[i].image \in {DataURL(f) : f \in {"fish.png", "dog.jpg"}}
          /\ \A f \in Files : reads[f] > 0 => f \in {"fish.png", "dog.jpg"})

C8_Witness ==
    /\ toasts = <<ToastInvalid>>
    /\ image # Null
    /\ results # <<>>
    /\ isLoading

\* C10: a change of image leaves the outstanding requests untouched, and a
\* request whose classifier call resolves stores its results whatever the
\* current image is: the stored results are those of the image the request
\* was started with, and the image is left as it is.
C10_StaleResultStored ==
    /\ [][image' # image => requests' = requests]_vars
    /\ [][ClassifiedStep =>
              /\ image' = image
              /\ \E i \in 1..Len(requests) :
                     /\ requests[i].awaiting = "classifier"
                     /\ requests' = Remove(requests, i)
                     /\ resultsFrom' = requests[i].image]_vars

C10_Witness ==
    /\ results # <<>>
    /\ image # Null
    /\ resultsFrom # Null
    /\ resultsFrom # image

====
